---- MODULE Spec2Model ----
(***************************************************************************)
(* Model of the Synopsys HSDK SDP generic PLL clock driver                 *)
(* (drivers/clk/hsdk-clk.c).                                               *)
(*                                                                         *)
(* Machine words.  The driver is built for the 32-bit ARC HS cores of the  *)
(* HSDK board, so u32 and unsigned long are both 32 bits wide.  A machine  *)
(* word is kept as a pair <<hi, lo>> of 16-bit halves (value hi*2^16+lo);  *)
(* the u64 product of get_rate is a pair whose hi part may exceed 16 bits. *)
(***************************************************************************)
EXTENDS Integers, Sequences, FiniteSets, TLC

VARIABLES
    node,        \* the device node: compatible string, presence of reg index 1
    bound,       \* "unbound", "active" (probe returned 0) or "failed"
    priv,        \* struct hsdk_pll_clk of the device
    ctrl,        \* CGU_PLL_CTRL register
    core_if_div, \* CREG_CORE_IF_DIV register
    pc,          \* position inside hsdk_pll_set_rate, "idle" between calls
    frame,       \* locals of the running hsdk_pll_set_rate
    io,          \* register accesses made by the running or last operation
    last,        \* the last completed operation and its return value
    build        \* what the compiled image makes of -LONG_MIN in abs()

vars == <<node, bound, priv, ctrl, core_if_div, pc, frame, io, last, build>>

Half == 2^16

\* the word holding a number 0 <= n < 2^31
U(n) == <<n \div Half, n % Half>>

\* (a - b) modulo 2^32: unsigned long subtraction
Sub32(a, b) ==
    LET borrow == IF a[2] < b[2] THEN 1 ELSE 0
    IN  <<(a[1] - b[1] - borrow) % Half, (a[2] - b[2]) % Half>>

\* conversion of an int (here 0 or a negated errno) to unsigned long
ToUlong(i) == IF i < 0 THEN Sub32(U(0), U(0 - i)) ELSE U(i)

\* sign bit of a word read as long
IsNeg(x) == x[1] >= Half \div 2

\* the word is LONG_MIN, whose negation overflows
IsLongMin(x) == x = <<Half \div 2, 0>>

\* signed comparison of two words read as long
SLt(a, b) ==
    IF IsNeg(a) # IsNeg(b) THEN IsNeg(a)
    ELSE a[1] < b[1] \/ (a[1] = b[1] /\ a[2] < b[2])

\* unsigned comparison of two words
ULt(a, b) == a[1] < b[1] \/ (a[1] = b[1] /\ a[2] < b[2])

\* abs(x) of a word x: x is read as long and negated when negative
abs(x) == IF IsNeg(x) THEN Sub32(U(0), x) ELSE x

\* u64 product of a word and a small factor (k <= 256)
MulSmall(a, k) ==
    LET lo == a[2] * k
    IN  <<a[1] * k + lo \div Half, lo % Half>>

\* do_div: quotient of a u64 by a small u32 divisor (0 < d <= 256)
do_div(a, d) ==
    LET r == a[1] % d
    IN  <<a[1] \div d, (r * Half + a[2]) \div d>>

\* conversion of a u64 to unsigned long
Trunc32(a) == <<a[1] % Half, a[2]>>

\* bitwise or of two 16-bit halves
RECURSIVE Or16(_, _)
Or16(x, y) ==
    IF x = 0 THEN y
    ELSE IF y = 0 THEN x
    ELSE 2 * Or16(x \div 2, y \div 2) + (IF x % 2 = 1 \/ y % 2 = 1 THEN 1 ELSE 0)

\* val | w on u32
BitOr32(a, b) == <<Or16(a[1], b[1]), Or16(a[2], b[2])>>

\* v << s on u32, for field codes v with v * 2^s < 2^31
Shl32(v, s) == U(v * 2^s)

\* bit n of a word (n < 16)
BIT(val, n) == (val[2] \div 2^n) % 2 = 1

\* (val & GENMASK(h, l)) >> l, for fields inside the low half
Field(val, h, l) == (val[2] \div 2^l) % 2^(h - l + 1)

(***************************************************************************)
(* Register layout and constants                                           *)
(***************************************************************************)
CGU_PLL_CTRL_ODIV_SHIFT == 2
CGU_PLL_CTRL_IDIV_SHIFT == 4
CGU_PLL_CTRL_FBDIV_SHIFT == 9
CGU_PLL_CTRL_BAND_SHIFT == 20
CGU_PLL_CTRL_ODIV_TOP == 3
CGU_PLL_CTRL_IDIV_TOP == 8
CGU_PLL_CTRL_FBDIV_TOP == 15
CGU_PLL_CTRL_PD == 0
CGU_PLL_CTRL_BYPASS == 1
CGU_PLL_STATUS_LOCK == 0
CGU_PLL_STATUS_ERR == 1
CORE_IF_CLK_THRESHOLD_HZ == 500000000
CREG_CORE_IF_CLK_DIV_1 == 0
CREG_CORE_IF_CLK_DIV_2 == 1
PARENT_RATE == 33333333
ETIMEDOUT == 110
EINVAL == 22
ENOENT == 2

cfg(rate, idiv, fbdiv, odiv, band) ==
    [rate |-> rate, idiv |-> idiv, fbdiv |-> fbdiv, odiv |-> odiv, band |-> band]

\* the terminating {} entry
sentinel == cfg(0, 0, 0, 0, 0)

asdt_pll_cfg == <<
    cfg(100000000,  0, 11, 3, 0),
    cfg(133000000,  0, 15, 3, 0),
    cfg(200000000,  1, 47, 3, 0),
    cfg(233000000,  1, 27, 2, 0),
    cfg(300000000,  1, 35, 2, 0),
    cfg(333000000,  1, 39, 2, 0),
    cfg(400000000,  1, 47, 2, 0),
    cfg(500000000,  0, 14, 1, 0),
    cfg(600000000,  0, 17, 1, 0),
    cfg(700000000,  0, 20, 1, 0),
    cfg(800000000,  0, 23, 1, 0),
    cfg(900000000,  1, 26, 0, 0),
    cfg(1000000000, 1, 29, 0, 0),
    cfg(1100000000, 1, 32, 0, 0),
    cfg(1200000000, 1, 35, 0, 0),
    cfg(1300000000, 1, 38, 0, 0),
    cfg(1400000000, 1, 41, 0, 0),
    cfg(1500000000, 1, 44, 0, 0),
    cfg(1600000000, 1, 47, 0, 0),
    sentinel >>

hdmi_pll_cfg == <<
    cfg(297000000,  0, 21, 2, 0),
    cfg(540000000,  0, 19, 1, 0),
    cfg(594000000,  0, 21, 1, 0),
    sentinel >>

\* the three device descriptors: rate table and update_rate callback
core_pll_devdata == [pll_cfg |-> asdt_pll_cfg, update_rate |-> "core"]
sdt_pll_devdata == [pll_cfg |-> asdt_pll_cfg, update_rate |-> "comm"]
hdmi_pll_devdata == [pll_cfg |-> hdmi_pll_cfg, update_rate |-> "comm"]

\* the match table: compatible string -> descriptor
hsdk_pll_clk_id ==
    [c \in {"snps,hsdk-gp-pll-clock", "snps,hsdk-hdmi-pll-clock",
            "snps,hsdk-core-pll-clock"} |->
        IF c = "snps,hsdk-gp-pll-clock" THEN sdt_pll_devdata
        ELSE IF c = "snps,hsdk-hdmi-pll-clock" THEN hdmi_pll_devdata
        ELSE core_pll_devdata]

(***************************************************************************)
(* Register codec                                                          *)
(***************************************************************************)
\* set_cfg shifting fbdiv by the top bit of idiv instead of its own shift
set_cfg_val_fbdiv_low(c) ==
    LET v0 == U(0)
        v1 == BitOr32(v0, Shl32(c.idiv, CGU_PLL_CTRL_IDIV_SHIFT))
        v2 == BitOr32(v1, Shl32(c.fbdiv, CGU_PLL_CTRL_IDIV_TOP))
        v3 == BitOr32(v2, Shl32(c.odiv, CGU_PLL_CTRL_ODIV_SHIFT))
    IN  BitOr32(v3, Shl32(c.band, CGU_PLL_CTRL_BAND_SHIFT))

\* the control word hsdk_pll_set_cfg writes for a table entry
set_cfg_val(c) ==
    LET v0 == U(0)
        v1 == BitOr32(v0, Shl32(c.idiv, CGU_PLL_CTRL_IDIV_SHIFT))
        v2 == BitOr32(v1, Shl32(c.fbdiv, CGU_PLL_CTRL_FBDIV_SHIFT))
        v3 == BitOr32(v2, Shl32(c.odiv, CGU_PLL_CTRL_ODIV_SHIFT))
    IN  BitOr32(v3, Shl32(c.band, CGU_PLL_CTRL_BAND_SHIFT))

\* get_rate testing the bypass bit before the powerdown bit
get_rate_val_bypass_first(val) ==
    IF BIT(val, CGU_PLL_CTRL_BYPASS) THEN U(PARENT_RATE)
    ELSE IF BIT(val, CGU_PLL_CTRL_PD) THEN U(0)
    ELSE
        LET idiv == 1 + Field(val, CGU_PLL_CTRL_IDIV_TOP, CGU_PLL_CTRL_IDIV_SHIFT)
            fbdiv == 2 * (1 + Field(val, CGU_PLL_CTRL_FBDIV_TOP, CGU_PLL_CTRL_FBDIV_SHIFT))
            odiv == 2^Field(val, CGU_PLL_CTRL_ODIV_TOP, CGU_PLL_CTRL_ODIV_SHIFT)
            rate == MulSmall(U(PARENT_RATE), fbdiv)
        IN  Trunc32(do_div(rate, idiv * odiv))

\* the value hsdk_pll_get_rate returns for a control word
get_rate_val(val) ==
    IF BIT(val, CGU_PLL_CTRL_PD) THEN U(0)
    ELSE IF BIT(val, CGU_PLL_CTRL_BYPASS) THEN U(PARENT_RATE)
    ELSE
        LET idiv == 1 + Field(val, CGU_PLL_CTRL_IDIV_TOP, CGU_PLL_CTRL_IDIV_SHIFT)
            fbdiv == 2 * (1 + Field(val, CGU_PLL_CTRL_FBDIV_TOP, CGU_PLL_CTRL_FBDIV_SHIFT))
            odiv == 2^Field(val, CGU_PLL_CTRL_ODIV_TOP, CGU_PLL_CTRL_ODIV_SHIFT)
            rate == MulSmall(U(PARENT_RATE), fbdiv)
        IN  Trunc32(do_div(rate, idiv * odiv))

(***************************************************************************)
(* Rate matcher                                                            *)
(***************************************************************************)
\* abs(..) < abs(..).  Negating LONG_MIN overflows: the image either wraps
\* (the result stays LONG_MIN, below every other value) or was compiled on
\* the assumption that abs() is never negative (the result counts as 2^31)
Builds == {"wraps", "nonneg"}

abs_lt(a, b) ==
    IF build = "nonneg" /\ (IsLongMin(a) \/ IsLongMin(b)) THEN ULt(a, b)
    ELSE SLt(a, b)

\* the loop of hsdk_pll_round_rate from index i with the current best_rate
RECURSIVE round_loop(_, _, _, _)
round_loop(pll_cfg, rate, i, best_rate) ==
    IF pll_cfg[i].rate = 0 THEN best_rate
    ELSE IF abs_lt(abs(Sub32(rate, U(pll_cfg[i].rate))), abs(Sub32(rate, best_rate)))
         THEN round_loop(pll_cfg, rate, i + 1, U(pll_cfg[i].rate))
         ELSE round_loop(pll_cfg, rate, i + 1, best_rate)

\* a matcher that hands the request back unrounded
round_rate_val_unrounded(pll_cfg, rate) ==
    IF pll_cfg[1].rate = 0 THEN ToUlong(0 - EINVAL) ELSE rate

\* the value hsdk_pll_round_rate returns
round_rate_val(pll_cfg, rate) ==
    IF pll_cfg[1].rate = 0 THEN ToUlong(0 - EINVAL)
    ELSE round_loop(pll_cfg, rate, 2, U(pll_cfg[1].rate))

\* the results hsdk_pll_round_rate can produce
hsdk_pll_round_rate(pll_cfg, rate) == {round_rate_val(pll_cfg, rate)}

\* the lookup loop of hsdk_pll_set_rate: index of the entry, 0 if none
RECURSIVE find_cfg(_, _, _)
find_cfg(pll_cfg, best_rate, i) ==
    IF pll_cfg[i].rate = 0 THEN 0
    ELSE IF U(pll_cfg[i].rate) = best_rate THEN i
    ELSE find_cfg(pll_cfg, best_rate, i + 1)

(***************************************************************************)
(* Inputs and initial state                                                *)
(***************************************************************************)
\* an absent word
None == <<>>

NULL == "NULL"

ULONG_MAX == <<Half - 1, Half - 1>>

\* the request whose distance to the first generic entry is LONG_MIN
LongMinRate == Sub32(U(100000000), <<Half \div 2, 0>>)

\* requested rates tried by the callers
ReqRates ==
    { U(0), U(250000000), U(500000000), U(540000000), U(550000000),
      U(600000000), U(1000000000), LongMinRate, ULONG_MAX }

\* contents of CGU_PLL_CTRL left by the boot ROM / reset
ResetCtrl ==
    { <<0, 3>>, <<0, 13849>>, <<Half - 1, 13850>>, <<0, Half - 4>>,
      <<0, Half - 512>>, <<0, 14864>> }

Compatibles == DOMAIN hsdk_pll_clk_id

noframe == [req |-> None, rate |-> None, best_rate |-> None, i |-> 0]

Init ==
    /\ node \in [compatible : Compatibles, has_aux : BOOLEAN]
    /\ bound = "unbound"
    /\ priv = [regs |-> NULL, spec_regs |-> NULL, pll_devdata |-> NULL]
    /\ ctrl \in ResetCtrl
    /\ core_if_div \in {CREG_CORE_IF_CLK_DIV_1, CREG_CORE_IF_CLK_DIV_2}
    /\ pc = "idle"
    /\ frame = noframe
    /\ io = <<>>
    /\ last = [op |-> "none", rate |-> None, best_rate |-> None, ret |-> None,
               after |-> None]
    /\ build \in Builds

\* one register access of the io trace
wr(reg, val) == [acc |-> "write", reg |-> reg, val |-> val]
rd(reg, val) == [acc |-> "read", reg |-> reg, val |-> val]

\* devfdt_get_addr_index: the register base of index n, NULL when absent
devfdt_get_addr_index(n, index) ==
    IF index = 0 THEN "CGU" ELSE IF n.has_aux THEN "CREG" ELSE NULL

\* the struct hsdk_pll_clk filled in by hsdk_pll_clk_probe
probe_priv(n) ==
    [regs |-> devfdt_get_addr_index(n, 0),
     spec_regs |-> devfdt_get_addr_index(n, 1),
     pll_devdata |-> hsdk_pll_clk_id[n.compatible]]

\* a probe that does not check the auxiliary base
probe_ret_unchecked(p) == 0

\* the return value of hsdk_pll_clk_probe
probe_ret(p) ==
    IF p.pll_devdata = core_pll_devdata /\ p.spec_regs = NULL
    THEN 0 - ENOENT ELSE 0

hsdk_pll_clk_probe ==
    /\ bound = "unbound"
    /\ priv' = probe_priv(node)
    /\ bound' = IF probe_ret(priv') = 0 THEN "active" ELSE "failed"
    /\ last' = [op |-> "probe", rate |-> None, best_rate |-> None,
                ret |-> ToUlong(probe_ret(priv')), after |-> None]
    /\ UNCHANGED <<node, ctrl, core_if_div, pc, frame, io, build>>

\* values a read of CGU_PLL_STATUS can return: the hardware drives the
\* lock and error bits and may change them between two reads
StatusValues == 0..3

\* the best rate of the last operation when it was a set_rate returning 0
set_ok_before ==
    IF last.op = "set_rate" /\ last.ret = U(0) THEN last.best_rate ELSE None

\* a get_rate answering from the rate the last set_rate matched
hsdk_pll_get_rate_cached ==
    /\ bound = "active" /\ pc = "idle"
    /\ last' = [op |-> "get_rate", rate |-> None, best_rate |-> None,
                ret |-> IF set_ok_before # None THEN set_ok_before
                        ELSE get_rate_val(ctrl),
                after |-> set_ok_before]
    /\ io' = <<rd("CGU_PLL_CTRL", ctrl)>>
    /\ UNCHANGED <<node, bound, priv, ctrl, core_if_div, pc, frame, build>>

hsdk_pll_get_rate ==
    /\ bound = "active" /\ pc = "idle"
    /\ last' = [op |-> "get_rate", rate |-> None, best_rate |-> None,
                ret |-> get_rate_val(ctrl), after |-> set_ok_before]
    /\ io' = <<rd("CGU_PLL_CTRL", ctrl)>>
    /\ UNCHANGED <<node, bound, priv, ctrl, core_if_div, pc, frame, build>>

round_rate_call ==
    /\ bound = "active" /\ pc = "idle"
    /\ \E rate \in ReqRates :
        \E r \in hsdk_pll_round_rate(priv.pll_devdata.pll_cfg, rate) :
            last' = [op |-> "round_rate", rate |-> rate, best_rate |-> r,
                     ret |-> r, after |-> None]
    /\ io' = <<>>
    /\ UNCHANGED <<node, bound, priv, ctrl, core_if_div, pc, frame, build>>

\* a lock test reading the error bit
is_locked_wrong_bit(s) == (s \div 2^CGU_PLL_STATUS_ERR) % 2 = 1

hsdk_pll_is_locked(s) == (s \div 2^CGU_PLL_STATUS_LOCK) % 2 = 1

\* an error test reading the lock bit, inverted
is_err_wrong_bit(s) == (s \div 2^CGU_PLL_STATUS_LOCK) % 2 = 0

hsdk_pll_is_err(s) == (s \div 2^CGU_PLL_STATUS_ERR) % 2 = 1

\* update_rate handed the requested rate instead of the matched one
update_rate_arg_requested(rate, best_rate) == rate

\* the rate argument hsdk_pll_set_rate hands to update_rate
update_rate_arg(rate, best_rate) == best_rate

\* the value hsdk_pll_set_rate returns for update_rate's result r
set_rate_ret(r, best_rate) == ToUlong(r)

\* hsdk_pll_set_rate returns r to its caller
Return(r) ==
    /\ last' = [op |-> "set_rate", rate |-> frame.req,
                best_rate |-> frame.best_rate,
                ret |-> set_rate_ret(r, frame.best_rate), after |-> None]
    /\ pc' = "idle"
    /\ frame' = noframe

\* entry of hsdk_pll_set_rate: round the rate, look the entry up, dispatch
hsdk_pll_set_rate ==
    /\ bound = "active" /\ pc = "idle"
    /\ \E rate \in ReqRates :
        \E best_rate \in hsdk_pll_round_rate(priv.pll_devdata.pll_cfg, rate) :
            LET i == find_cfg(priv.pll_devdata.pll_cfg, best_rate, 1)
            IN  /\ io' = <<>>
                /\ IF i = 0
                   THEN /\ last' = [op |-> "set_rate", rate |-> rate,
                                    best_rate |-> best_rate,
                                    ret |-> ToUlong(0 - EINVAL), after |-> None]
                        /\ UNCHANGED <<pc, frame>>
                   ELSE /\ frame' = [req |-> rate,
                                     rate |-> update_rate_arg(rate, best_rate),
                                     best_rate |-> best_rate, i |-> i]
                        /\ pc' = IF priv.pll_devdata.update_rate = "core"
                                 THEN "core_pre" ELSE "set_cfg"
                        /\ UNCHANGED last
    /\ UNCHANGED <<node, bound, priv, ctrl, core_if_div, build>>

\* a core variant without the pre-step
core_pre_write_none(rate) == <<>>

\* the divider write hsdk_pll_core_update_rate makes before the control word
core_pre_write(rate) ==
    IF ULt(U(CORE_IF_CLK_THRESHOLD_HZ), rate)
    THEN <<wr("CREG_CORE_IF_DIV", CREG_CORE_IF_CLK_DIV_2)>> ELSE <<>>

\* a post-step that leaves out the threshold itself
core_post_write_below(rate) ==
    IF ULt(rate, U(CORE_IF_CLK_THRESHOLD_HZ))
    THEN <<wr("CREG_CORE_IF_DIV", CREG_CORE_IF_CLK_DIV_1)>> ELSE <<>>

\* the divider write hsdk_pll_core_update_rate makes after a good lock
core_post_write(rate) ==
    IF ~ULt(U(CORE_IF_CLK_THRESHOLD_HZ), rate)
    THEN <<wr("CREG_CORE_IF_DIV", CREG_CORE_IF_CLK_DIV_1)>> ELSE <<>>

\* the common variant making the post-step write of the core variant
comm_write_as_core(rate) == core_post_write(rate)

\* the divider writes hsdk_pll_comm_update_rate makes: none
comm_write(rate) == <<>>

\* the accesses acc, then a sequence w of at most one divider write
SpcWrite(acc, w) ==
    /\ core_if_div' = IF w = <<>> THEN core_if_div ELSE w[1].val
    /\ io' = io \o acc \o w

core_update_rate_pre ==
    /\ pc = "core_pre"
    /\ SpcWrite(<<>>, core_pre_write(frame.rate))
    /\ pc' = "set_cfg"
    /\ UNCHANGED <<node, bound, priv, ctrl, frame, last, build>>

hsdk_pll_set_cfg ==
    /\ pc = "set_cfg"
    /\ ctrl' = set_cfg_val(priv.pll_devdata.pll_cfg[frame.i])
    /\ io' = Append(io, wr("CGU_PLL_CTRL", ctrl'))
    /\ pc' = "is_locked"
    /\ UNCHANGED <<node, bound, priv, core_if_div, frame, last, build>>

\* udelay(HSDK_PLL_MAX_LOCK_TIME) and the lock test
update_rate_is_locked ==
    /\ pc = "is_locked"
    /\ \E status \in StatusValues :
        /\ io' = Append(io, rd("CGU_PLL_STATUS", status))
        /\ IF ~hsdk_pll_is_locked(status)
           THEN Return(0 - ETIMEDOUT)
           ELSE pc' = "is_err" /\ UNCHANGED <<frame, last>>
    /\ UNCHANGED <<node, bound, priv, ctrl, core_if_div, build>>

\* the error test; the common variant returns 0 here
update_rate_is_err ==
    /\ pc = "is_err"
    /\ \E status \in StatusValues :
        LET acc == <<rd("CGU_PLL_STATUS", status)>>
        IN  IF hsdk_pll_is_err(status)
            THEN SpcWrite(acc, <<>>) /\ Return(0 - EINVAL)
            ELSE IF priv.pll_devdata.update_rate = "core"
                 THEN /\ SpcWrite(acc, <<>>)
                      /\ pc' = "core_post"
                      /\ UNCHANGED <<frame, last>>
                 ELSE SpcWrite(acc, comm_write(frame.rate)) /\ Return(0)
    /\ UNCHANGED <<node, bound, priv, ctrl, build>>

core_update_rate_post ==
    /\ pc = "core_post"
    /\ SpcWrite(<<>>, core_post_write(frame.rate))
    /\ Return(0)
    /\ UNCHANGED <<node, bound, priv, ctrl, build>>

Next ==
    \/ hsdk_pll_clk_probe
    \/ hsdk_pll_get_rate
    \/ round_rate_call
    \/ hsdk_pll_set_rate
    \/ core_update_rate_pre
    \/ hsdk_pll_set_cfg
    \/ update_rate_is_locked
    \/ update_rate_is_err
    \/ core_update_rate_post

Spec == Init /\ [][Next]_vars

(***************************************************************************)
(* The operations on rate tables other than the shipped ones: a probed     *)
(* instance whose descriptor may carry a sentinel-only table, the case     *)
(* hsdk_pll_round_rate and hsdk_pll_set_rate test for.                     *)
(***************************************************************************)
empty_pll_cfg == <<sentinel>>

AnyDevdata ==
    {core_pll_devdata, sdt_pll_devdata, hdmi_pll_devdata}
        \cup {[pll_cfg |-> empty_pll_cfg, update_rate |-> u] : u \in {"core", "comm"}}

InitTables ==
    /\ node = [compatible |-> "none", has_aux |-> TRUE]
    /\ bound = "active"
    /\ priv \in [regs : {"CGU"}, spec_regs : {"CREG"}, pll_devdata : AnyDevdata]
    /\ ctrl \in ResetCtrl
    /\ core_if_div \in {CREG_CORE_IF_CLK_DIV_1, CREG_CORE_IF_CLK_DIV_2}
    /\ pc = "idle"
    /\ frame = noframe
    /\ io = <<>>
    /\ last = [op |-> "none", rate |-> None, best_rate |-> None, ret |-> None,
               after |-> None]
    /\ build \in Builds

NextTables ==
    \/ hsdk_pll_get_rate
    \/ round_rate_call
    \/ hsdk_pll_set_rate
    \/ core_update_rate_pre
    \/ hsdk_pll_set_cfg
    \/ update_rate_is_locked
    \/ update_rate_is_err
    \/ core_update_rate_post

SpecTables == InitTables /\ [][NextTables]_vars

(***************************************************************************)
(* Vocabulary of the properties                                            *)
(***************************************************************************)
IsCore == node.compatible = "snps,hsdk-core-pll-clock"

\* a set_rate call is running or was the last operation to complete
InSetRate == pc # "idle" \/ last.op = "set_rate"

\* the last operation to complete was a set_rate that reached update_rate
SetRateDone == pc = "idle" /\ last.op = "set_rate" /\ io # <<>>

\* the last operation to complete was a get_rate: it decoded the current ctrl
GetRateDone == pc = "idle" /\ last.op = "get_rate" /\ io = <<rd("CGU_PLL_CTRL", ctrl)>>

\* requested and matched rate of that call
CurReq == IF pc # "idle" THEN frame.req ELSE last.rate
CurBest == IF pc # "idle" THEN frame.best_rate ELSE last.best_rate

\* positions of the io trace
CtrlWrites == {k \in 1..Len(io) : io[k].acc = "write" /\ io[k].reg = "CGU_PLL_CTRL"}
AuxWrites == {k \in 1..Len(io) : io[k].acc = "write" /\ io[k].reg = "CREG_CORE_IF_DIV"}
DivWrites(v) == {k \in AuxWrites : io[k].val = v}
StatusReads == {k \in 1..Len(io) : io[k].acc = "read" /\ io[k].reg = "CGU_PLL_STATUS"}

\* bits of a status sample
LockBit(v) == v % 2 = 1
ErrBit(v) == (v \div 2) % 2 = 1

\* the status samples of the call, in order
Samples == [n \in 1..Cardinality(StatusReads) |->
              io[CHOOSE k \in StatusReads :
                    Cardinality({j \in StatusReads : j <= k}) = n].val]

\* lock seen set and error seen clear after the wait
SawLockNoErr ==
    SetRateDone /\ Len(Samples) = 2 /\ LockBit(Samples[1]) /\ ~ErrBit(Samples[2])

Above(rate) == ULt(U(CORE_IF_CLK_THRESHOLD_HZ), rate)

\* the non-sentinel entries of a table
Entries(pll_cfg) == {pll_cfg[i] : i \in {j \in 1..Len(pll_cfg) : pll_cfg[j].rate # 0}}

\* the table of the device node
NodeTable == hsdk_pll_clk_id[node.compatible].pll_cfg

\* the entry of the node's table with the given target frequency
EntryOf(rate) == CHOOSE e \in Entries(NodeTable) : U(e.rate) = rate

\* |a - b| of two words, as a word
Dist(a, b) == IF ULt(a, b) THEN Sub32(b, a) ELSE Sub32(a, b)

(***************************************************************************)
(* C1                                                                      *)
(***************************************************************************)
\* C1: when set_rate succeeds (lock set, error clear after the wait) the
\* value it returns is the target_frequency chosen by the rate matcher.
C1_ReturnsMatchedRate == SawLockNoErr => last.ret = last.best_rate

(***************************************************************************)
(* C2                                                                      *)
(***************************************************************************)
\* the sequencing of the interface divider of the core variant, for a call
\* whose deciding rate is r
CoreSequencing(r) ==
    /\ Above(r) =>
        /\ \A k \in CtrlWrites : \E j \in DivWrites(CREG_CORE_IF_CLK_DIV_2) : j < k
        /\ DivWrites(CREG_CORE_IF_CLK_DIV_1) = {}
    /\ ~Above(r) =>
        /\ \A k \in DivWrites(CREG_CORE_IF_CLK_DIV_1) :
            /\ \E j \in CtrlWrites : j < k
            /\ \E j \in StatusReads : j < k /\ LockBit(io[j].val)
        /\ DivWrites(CREG_CORE_IF_CLK_DIV_2) = {}
        /\ SawLockNoErr => DivWrites(CREG_CORE_IF_CLK_DIV_1) # {}

\* C2 as stated: on the core variant the requested rate decides: above
\* 500 MHz divide-by-2 is written before the control register, at or below
\* it divide-by-1 is written only after the lock was seen.
C2_RequestedRateDecides == IsCore /\ InSetRate => CoreSequencing(CurReq)

\* C2 amended: the matched target_frequency decides, not the requested rate.
C2_MatchedRateDecides == IsCore /\ InSetRate => CoreSequencing(CurBest)

C2_Witness ==
    /\ IsCore /\ SawLockNoErr
    /\ last.rate = U(540000000) /\ last.best_rate = U(500000000)
    /\ Len(io) \in DivWrites(CREG_CORE_IF_CLK_DIV_1)

(***************************************************************************)
(* C3                                                                      *)
(***************************************************************************)
\* C3: if the status sampled after the wait has the lock bit clear, set_rate
\* returns -ETIMEDOUT whatever the error bit, writes no divide-by-1, samples
\* and programs once only, and the control register keeps the new word.
C3_LockTimeout ==
    SetRateDone /\ Len(Samples) >= 1 /\ ~LockBit(Samples[1]) =>
        /\ last.ret = ToUlong(0 - 110)
        /\ DivWrites(CREG_CORE_IF_CLK_DIV_1) = {}
        /\ Cardinality(CtrlWrites) = 1
        /\ Len(Samples) = 1
        /\ ctrl = set_cfg_val(EntryOf(last.best_rate))
        /\ \A k \in CtrlWrites : io[k].val = ctrl /\ \A j \in AuxWrites : j < k

C3_Witness ==
    /\ IsCore /\ SetRateDone /\ Samples = <<2>>
    /\ last.best_rate = U(500000000)
    /\ last.ret = ToUlong(0 - 110)

(***************************************************************************)
(* C4                                                                      *)
(***************************************************************************)
\* index of the first entry of the table with the given target frequency
IndexOf(pll_cfg, rate) ==
    CHOOSE i \in 1..Len(pll_cfg) :
        /\ U(pll_cfg[i].rate) = rate
        /\ \A j \in 1..(i - 1) : U(pll_cfg[j].rate) # rate

\* C4: for every requested frequency of the unsigned range, round_rate
\* returns a target_frequency of the table, no entry is strictly nearer to
\* the request, and of the equally near entries it is the earliest.
C4_NearestEarliest ==
    last.op = "round_rate" =>
        /\ \E e \in Entries(NodeTable) : U(e.rate) = last.ret
        /\ \A e \in Entries(NodeTable) :
            ~ULt(Dist(last.rate, U(e.rate)), Dist(last.rate, last.ret))
        /\ \A i \in 1..Len(NodeTable) :
            (NodeTable[i].rate # 0 /\
             Dist(last.rate, U(NodeTable[i].rate)) = Dist(last.rate, last.ret))
                => IndexOf(NodeTable, last.ret) <= i

(***************************************************************************)
(* C5                                                                      *)
(***************************************************************************)
\* C5: decoding the control word that encodes a table entry gives the
\* entry's target_frequency to within 100 Hz, for every entry of both tables.
C5_RoundTrip ==
    GetRateDone =>
        \A e \in Entries(NodeTable) :
            ctrl = set_cfg_val(e) => ~ULt(U(100), Dist(last.ret, U(e.rate)))

(***************************************************************************)
(* C6                                                                      *)
(***************************************************************************)
\* C6: on the generic table a request of 250 MHz selects 233 MHz and writes
\* idiv=1, fbdiv=27, odiv=2, band=0 with powerdown and bypass clear; after
\* a successful set_rate the next get_rate returns the matched frequency.
C6_SetThenGet ==
    /\ (NodeTable = asdt_pll_cfg /\ SetRateDone /\ last.rate = U(250000000)) =>
        /\ last.best_rate = U(233000000)
        /\ \A k \in CtrlWrites : io[k].val = U(1 * 2^4 + 27 * 2^9 + 2 * 2^2)
    /\ (last.op = "get_rate" /\ last.after # None) => last.ret = last.after

(***************************************************************************)
(* C7                                                                      *)
(***************************************************************************)
\* bits 0 and 1 of the low half of a control word
PdBit(val) == val[2] % 2 = 1
BypassBit(val) == (val[2] \div 2) % 2 = 1

\* C7 as stated: get_rate returns 0 when powerdown is set and the reference
\* frequency when bypass is set, whatever the other bits are.
C7_PdAndBypassIndependent ==
    GetRateDone =>
        /\ PdBit(ctrl) => last.ret = U(0)
        /\ BypassBit(ctrl) => last.ret = U(33333333)

\* C7 amended: get_rate returns 0 when powerdown is set, and the reference
\* frequency when bypass is set and powerdown is clear.
C7_PdThenBypass ==
    GetRateDone =>
        /\ PdBit(ctrl) => last.ret = U(0)
        /\ (BypassBit(ctrl) /\ ~PdBit(ctrl)) => last.ret = U(33333333)

C7_Witness ==
    /\ GetRateDone
    /\ ctrl = <<Half - 1, 13850>>
    /\ last.ret = U(33333333)

C9_NoAuxWrite ==
    [][~IsCore => (core_if_div' = core_if_div /\
         \A k \in 1..Len(io') : io'[k].reg # "CREG_CORE_IF_DIV")]_vars

C9_Witness ==
    /\ ~IsCore /\ SawLockNoErr /\ last.ret = U(0)
    /\ ~Above(last.best_rate)
    /\ core_if_div = CREG_CORE_IF_CLK_DIV_2

(***************************************************************************)
(* C10                                                                     *)
(***************************************************************************)
\* C10: when the lock bit was seen set and then the error bit set, set_rate
\* returns -EINVAL, makes no divider write after programming the control
\* register, samples and programs once only, leaves the new control word
\* in place and leaves a divide-by-2 written before it in place.
C10_HardwareError ==
    SetRateDone /\ Len(Samples) = 2 /\ LockBit(Samples[1]) /\ ErrBit(Samples[2]) =>
        /\ last.ret = ToUlong(0 - 22)
        /\ DivWrites(CREG_CORE_IF_CLK_DIV_1) = {}
        /\ Cardinality(CtrlWrites) = 1
        /\ ctrl = set_cfg_val(EntryOf(last.best_rate))
        /\ \A k \in CtrlWrites : io[k].val = ctrl /\ \A j \in AuxWrites : j < k
        /\ DivWrites(CREG_CORE_IF_CLK_DIV_2) # {} =>
                core_if_div = CREG_CORE_IF_CLK_DIV_2
        /\ (IsCore /\ Above(last.best_rate)) => DivWrites(CREG_CORE_IF_CLK_DIV_2) # {}

C10_Witness ==
    /\ IsCore /\ SetRateDone /\ Samples = <<3, 3>>
    /\ last.best_rate = U(1000000000)
    /\ last.ret = ToUlong(0 - 22)
    /\ core_if_div = CREG_CORE_IF_CLK_DIV_2

(***************************************************************************)
(* C11                                                                     *)
(***************************************************************************)
TableEmpty == priv.pll_devdata.pll_cfg[1].rate = 0

\* C11: with a sentinel-only table every set_rate returns -EINVAL and no
\* step writes the control or the divider register; with a non-empty table
\* set_rate never returns at the lookup (it always reaches update_rate).
C11_EmptyTable ==
    [][/\ TableEmpty =>
            /\ ctrl' = ctrl /\ core_if_div' = core_if_div
            /\ pc' = "idle"
            /\ \A k \in 1..Len(io') : io'[k].acc # "write"
            /\ last'.op = "set_rate" => last'.ret = ToUlong(0 - 22)
       /\ ~TableEmpty => ~(pc' = "idle" /\ last'.op = "set_rate" /\ io' = <<>>)
      ]_vars

C11_Witness ==
    /\ TableEmpty /\ pc = "idle" /\ io = <<>>
    /\ last.op = "set_rate" /\ last.rate = U(250000000)
    /\ last.ret = ToUlong(0 - 22)

(***************************************************************************)
(* C12                                                                     *)
(***************************************************************************)
\* C12: set_rate returns success only if one and the same sample of the
\* status register had the lock bit set and the error bit clear.
C12_OneSampleDecides ==
    (SetRateDone /\ last.ret = U(0)) =>
        \E n \in 1..Len(Samples) : LockBit(Samples[n]) /\ ~ErrBit(Samples[n])

(***************************************************************************)
(* C13                                                                     *)
(***************************************************************************)
\* the divider fields of a control word
IdivField(val) == (val[2] \div 16) % 32
FbdivField(val) == (val[2] \div 512) % 128
OdivField(val) == (val[2] \div 4) % 4

\* floor(33333333 * 2*(fbdiv+1) / ((idiv+1) * 2^odiv)) as a 64-bit value
FloorRate(val) ==
    do_div(MulSmall(U(33333333), 2 * (FbdivField(val) + 1)),
           (IdivField(val) + 1) * 2^OdivField(val))

\* C13: with powerdown and bypass clear get_rate returns the floor of the
\* PLL formula for any register content, the divisor is not zero and the
\* value is not truncated.
C13_FloorNotTruncated ==
    (GetRateDone /\ ~PdBit(ctrl) /\ ~BypassBit(ctrl)) =>
        /\ (IdivField(ctrl) + 1) * 2^OdivField(ctrl) > 0
        /\ last.ret = FloorRate(ctrl)

(***************************************************************************)
(* C14                                                                     *)
(***************************************************************************)
\* the word w carries the codes of entry e in their fields and nothing else
Encodes(w, e) ==
    /\ ~PdBit(w) /\ ~BypassBit(w)
    /\ IdivField(w) = e.idiv
    /\ FbdivField(w) = e.fbdiv
    /\ OdivField(w) = e.odiv
    /\ w[1] % 16 = 0
    /\ w[1] \div 16 = e.band

\* C14: the control word the Program step writes, and the word of every
\* entry of both tables, has powerdown and bypass clear and carries idiv,
\* fbdiv, odiv and band in bits [8:4], [15:9], [3:2] and [20..].
C14_FieldsInPlace ==
    /\ \A e \in Entries(asdt_pll_cfg) \cup Entries(hdmi_pll_cfg) :
        Encodes(set_cfg_val(e), e)
    /\ (bound = "active" /\ InSetRate) =>
        \A k \in CtrlWrites : Encodes(io[k].val, EntryOf(CurBest))

C14_Witness ==
    /\ pc = "is_locked"
    /\ frame.best_rate = U(233000000)
    /\ CtrlWrites # {}
    /\ IdivField(ctrl) = 1 /\ FbdivField(ctrl) = 27 /\ OdivField(ctrl) = 2

(***************************************************************************)
(* C15                                                                     *)
(***************************************************************************)
\* a step that is a complete get_rate or round_rate call
QueryStep ==
    /\ pc = "idle" /\ pc' = "idle"
    /\ last'.op \in {"get_rate", "round_rate"}
    /\ (last' # last \/ io' # io)

\* the decoding of a control word, from the register layout
Decode(val) ==
    IF PdBit(val) THEN U(0)
    ELSE IF BypassBit(val) THEN U(33333333)
    ELSE LET q == FloorRate(val) IN <<q[1] % Half, q[2]>>

\* C15: get_rate and round_rate write no register; get_rate's result is
\* determined by the current control register alone (no cached rate) and
\* round_rate's result by the table and the request alone.
C15_QueriesArePure ==
    [][QueryStep =>
        /\ ctrl' = ctrl /\ core_if_div' = core_if_div
        /\ \A k \in 1..Len(io') : io'[k].acc # "write"
        /\ last'.op = "get_rate" => last'.ret = Decode(ctrl')
        /\ last'.op = "round_rate" =>
                last'.ret = round_rate_val(NodeTable, last'.rate)
      ]_vars

C15_Witness ==
    /\ GetRateDone
    /\ last.after = U(233000000)
    /\ last.ret # last.after
    /\ last.ret = Decode(ctrl)

(***************************************************************************)
(* C16                                                                     *)
(***************************************************************************)
\* the control register holds a table configuration above the threshold
\* while the interface divider is divide-by-1
Overclocked ==
    /\ core_if_div = CREG_CORE_IF_CLK_DIV_1
    /\ \E e \in Entries(NodeTable) : Above(U(e.rate)) /\ ctrl = set_cfg_val(e)

\* C16: on the core variant no step of any set_rate, whatever the request
\* and the lock and error outcome, leads from a state that is not
\* overclocked to one that is.
C16_NeverOverclocked == [][(IsCore /\ ~Overclocked) => ~Overclocked']_vars

C16_Witness ==
    /\ IsCore /\ pc = "is_locked"
    /\ Above(frame.best_rate)
    /\ ctrl = set_cfg_val(EntryOf(frame.best_rate))
    /\ Len(io) = 2 /\ 1 \in DivWrites(CREG_CORE_IF_CLK_DIV_2)
    /\ core_if_div = CREG_CORE_IF_CLK_DIV_2

(***************************************************************************)
(* C17                                                                     *)
(***************************************************************************)
\* C17: after every set_rate of the core variant that returns 0 the
\* interface divider is divide-by-2 exactly if the programmed entry's
\* target_frequency is above 500 MHz, and divide-by-1 otherwise.
C17_DividerMatchesRate ==
    (IsCore /\ SetRateDone /\ last.ret = U(0)) =>
        /\ ctrl = set_cfg_val(EntryOf(last.best_rate))
        /\ Above(last.best_rate) => core_if_div = CREG_CORE_IF_CLK_DIV_2
        /\ ~Above(last.best_rate) => core_if_div = CREG_CORE_IF_CLK_DIV_1

C17_Witness ==
    /\ IsCore /\ SetRateDone /\ last.ret = U(0)
    /\ last.best_rate = U(500000000)
    /\ core_if_div = CREG_CORE_IF_CLK_DIV_1

====
